---- MODULE Spec2Model ----
(***************************************************************************)
(* Account balance calculator: the per-account transaction state machine   *)
(* (ClientState) and the worker pool that shards transactions over N lanes *)
(* (AccountManager), modelled from src/src/account_manager.rs.             *)
(*                                                                         *)
(* Amounts are BigDecimal in the source (arbitrary precision, so no        *)
(* overflow); they are modelled as integers counting a fixed smallest unit.*)
(* An Option<BigDecimal> is the empty tuple (None) or a 1-tuple (Some(v)). *)
(***************************************************************************)
EXTENDS Integers, Sequences, FiniteSets, TLC

\* ------------------------------------------------------------------ bounds
MaxWorkers == 2      \* lane counts 1..MaxWorkers are explored
MaxClient == 1       \* client ids 0..MaxClient
MaxTxId == 2         \* transaction ids 1..MaxTxId
MaxAmount == 2       \* amounts -1..MaxAmount
MaxTx == 3           \* length of the input stream under Spec
MaxFree == 1         \* under LiveSpec: leading inputs that may go to any lane
MaxOver == 2         \* under LiveSpec: inputs beyond one full queue

\* -------------------------------------------------------- program constants
CHANNEL_BUFFER_SIZE == 32

\* ------------------------------------------------------------------- types
TransactionType == {"Deposit", "Withdrawal", "Dispute", "Resolve", "Chargeback"}
ClientId == 0..MaxClient
TxId == 1..MaxTxId
\* The sign of an amount is not validated: a negative amount, zero, and the
\* positive amounts up to MaxAmount.
Amounts == {-1} \cup (0..MaxAmount)
OptAmount == {<<>>} \cup {<<a>> : a \in Amounts}

Transaction ==
  [transaction_type : TransactionType, client : ClientId, tx : TxId, amount : OptAmount]

\* Placeholder for "no transaction" in the bookkeeping variables.
NoTransaction == [transaction_type |-> "None", client |-> 0, tx |-> 0, amount |-> <<>>]

\* ClientState { client, ..Default::default() }
DefaultClientState(c) ==
  [client |-> c, available |-> 0, held |-> 0, locked |-> FALSE,
   tx_for_transaction_state |-> <<>>]

\* HashMap::insert on a map modelled as a function
MapInsert(m, k, v) == [x \in (DOMAIN m) \cup {k} |-> IF x = k THEN v ELSE m[x]]

Result(r, s) == [res |-> r, state |-> s]

\* ------------------------------------------------- ClientState operations

\* The state check taking a Withdrawal entry for a posted Deposit.
get_tx_state_and_check_state_WithdrawalPosted(tx_for_transaction_state, transaction, allowed_tx_state) ==
  IF transaction.tx \notin DOMAIN tx_for_transaction_state
  THEN "TxDoesNotExist"
  ELSE LET stored == tx_for_transaction_state[transaction.tx][1]
           tx_state == IF stored = "Withdrawal" THEN "Deposit" ELSE stored
       IN IF tx_state = allowed_tx_state THEN "Ok"
          ELSE CASE tx_state = "Dispute"    -> "AlreadyDisputed"
                 [] tx_state = "Chargeback" -> "AlreadyChargebacked"
                 [] tx_state = "Resolve"    -> "Panic"
                 [] tx_state = "Deposit"    -> "NotUnderDispute"

\* The state check letting a charged-back entry be disputed again.
get_tx_state_and_check_state_ChargebackReopens(tx_for_transaction_state, transaction, allowed_tx_state) ==
  IF transaction.tx \notin DOMAIN tx_for_transaction_state
  THEN "TxDoesNotExist"
  ELSE LET tx_state == tx_for_transaction_state[transaction.tx][1] IN
       IF tx_state = allowed_tx_state THEN "Ok"
       ELSE CASE tx_state = "Withdrawal" -> "CannotDisputeWithdrawal"
              [] tx_state = "Dispute"    -> "AlreadyDisputed"
              [] tx_state = "Chargeback" ->
                   IF allowed_tx_state = "Deposit" THEN "Ok" ELSE "AlreadyChargebacked"
              [] tx_state = "Resolve"    -> "Panic"
              [] tx_state = "Deposit"    -> "NotUnderDispute"

get_tx_state_and_check_state(tx_for_transaction_state, transaction, allowed_tx_state) ==
  IF transaction.tx \notin DOMAIN tx_for_transaction_state
  THEN "TxDoesNotExist"
  ELSE LET tx_state == tx_for_transaction_state[transaction.tx][1] IN
       IF tx_state = allowed_tx_state THEN "Ok"
       ELSE CASE tx_state = "Withdrawal" -> "CannotDisputeWithdrawal"
              [] tx_state = "Dispute"    -> "AlreadyDisputed"
              [] tx_state = "Chargeback" -> "AlreadyChargebacked"
              [] tx_state = "Resolve"    -> "Panic"
              [] tx_state = "Deposit"    -> "NotUnderDispute"

\* deposit without the duplicate-id check.
deposit_NoDuplicateCheck(self, transaction) ==
  IF transaction.amount = <<>>
  THEN Result("AmountMissing", self)
  ELSE LET amount == transaction.amount[1] IN
       Result("Ok",
              [self EXCEPT !.available = @ + amount,
                           !.tx_for_transaction_state =
                              MapInsert(@, transaction.tx, <<"Deposit", amount>>)])

deposit(self, transaction) ==
  IF transaction.transaction_type # "Deposit" THEN Result("Panic", self)
  ELSE IF transaction.tx \in DOMAIN self.tx_for_transaction_state
  THEN Result("AlreadyProcessed", self)
  ELSE IF transaction.amount = <<>>
  THEN Result("AmountMissing", self)
  ELSE LET amount == transaction.amount[1] IN
       Result("Ok",
              [self EXCEPT !.available = @ + amount,
                           !.tx_for_transaction_state =
                              MapInsert(@, transaction.tx, <<"Deposit", amount>>)])

\* withdrawal without the duplicate-id check.
withdrawal_NoDuplicateCheck(self, transaction) ==
  IF self.locked
  THEN Result("AccountLocked", self)
  ELSE IF transaction.amount = <<>>
  THEN Result("AmountMissing", self)
  ELSE LET amount == transaction.amount[1] IN
       IF self.available <= amount
       THEN Result("InsufficientAvailable", self)
       ELSE Result("Ok",
                   [self EXCEPT !.available = @ - amount,
                                !.tx_for_transaction_state =
                                   MapInsert(@, transaction.tx, <<"Withdrawal", amount>>)])

\* withdrawal comparing with `<` where the source compares with `<=`.
withdrawal_NonStrict(self, transaction) ==
  IF self.locked
  THEN Result("AccountLocked", self)
  ELSE IF transaction.tx \in DOMAIN self.tx_for_transaction_state
  THEN Result("AlreadyProcessed", self)
  ELSE IF transaction.amount = <<>>
  THEN Result("AmountMissing", self)
  ELSE LET amount == transaction.amount[1] IN
       IF self.available < amount
       THEN Result("InsufficientAvailable", self)
       ELSE Result("Ok",
                   [self EXCEPT !.available = @ - amount,
                                !.tx_for_transaction_state =
                                   MapInsert(@, transaction.tx, <<"Withdrawal", amount>>)])

\* withdrawal checking the total (available + held) where the source checks available.
withdrawal_ChecksTotal(self, transaction) ==
  IF self.locked
  THEN Result("AccountLocked", self)
  ELSE IF transaction.tx \in DOMAIN self.tx_for_transaction_state
  THEN Result("AlreadyProcessed", self)
  ELSE IF transaction.amount = <<>>
  THEN Result("AmountMissing", self)
  ELSE LET amount == transaction.amount[1] IN
       IF self.available + self.held <= amount
       THEN Result("InsufficientAvailable", self)
       ELSE Result("Ok",
                   [self EXCEPT !.available = @ - amount,
                                !.tx_for_transaction_state =
                                   MapInsert(@, transaction.tx, <<"Withdrawal", amount>>)])

\* withdrawal not looking at the locked flag.
withdrawal_IgnoresLock(self, transaction) ==
  IF transaction.tx \in DOMAIN self.tx_for_transaction_state
  THEN Result("AlreadyProcessed", self)
  ELSE IF transaction.amount = <<>>
  THEN Result("AmountMissing", self)
  ELSE LET amount == transaction.amount[1] IN
       IF self.available <= amount
       THEN Result("InsufficientAvailable", self)
       ELSE Result("Ok",
                   [self EXCEPT !.available = @ - amount,
                                !.tx_for_transaction_state =
                                   MapInsert(@, transaction.tx, <<"Withdrawal", amount>>)])

withdrawal(self, transaction) ==
  IF transaction.transaction_type # "Withdrawal" THEN Result("Panic", self)
  ELSE IF self.locked
  THEN Result("AccountLocked", self)
  ELSE IF transaction.tx \in DOMAIN self.tx_for_transaction_state
  THEN Result("AlreadyProcessed", self)
  ELSE IF transaction.amount = <<>>
  THEN Result("AmountMissing", self)
  ELSE LET amount == transaction.amount[1] IN
       IF self.available <= amount
       THEN Result("InsufficientAvailable", self)
       ELSE Result("Ok",
                   [self EXCEPT !.available = @ - amount,
                                !.tx_for_transaction_state =
                                   MapInsert(@, transaction.tx, <<"Withdrawal", amount>>)])

\* dispute marking the entry Disputed before the balance check.
dispute_MarksFirst(self, transaction) ==
  LET chk == get_tx_state_and_check_state(self.tx_for_transaction_state,
                                          transaction, "Deposit") IN
  IF chk # "Ok" THEN Result(chk, self)
  ELSE LET amount == self.tx_for_transaction_state[transaction.tx][2]
           marked == [self EXCEPT !.tx_for_transaction_state[transaction.tx][1] = "Dispute"]
       IN IF self.available < amount
          THEN Result("InsufficientAvailable", marked)
          ELSE Result("Ok", [marked EXCEPT !.available = @ - amount, !.held = @ + amount])

\* dispute passing over an unknown transaction id without an error.
dispute_IgnoresMissing(self, transaction) ==
  IF transaction.tx \notin DOMAIN self.tx_for_transaction_state
  THEN Result("Ok", self)
  ELSE LET chk == get_tx_state_and_check_state(self.tx_for_transaction_state,
                                               transaction, "Deposit") IN
       IF chk # "Ok" THEN Result(chk, self)
       ELSE LET amount == self.tx_for_transaction_state[transaction.tx][2] IN
            IF self.available < amount
            THEN Result("InsufficientAvailable", self)
            ELSE Result("Ok",
                        [self EXCEPT !.tx_for_transaction_state[transaction.tx][1] = "Dispute",
                                     !.available = @ - amount,
                                     !.held = @ + amount])

\* dispute taking the amount of the Dispute record when it carries one.
dispute_UsesRecordAmount(self, transaction) ==
  LET chk == get_tx_state_and_check_state(self.tx_for_transaction_state,
                                          transaction, "Deposit") IN
  IF chk # "Ok" THEN Result(chk, self)
  ELSE LET amount == IF transaction.amount # <<>> THEN transaction.amount[1]
                     ELSE self.tx_for_transaction_state[transaction.tx][2] IN
       IF self.available < amount
       THEN Result("InsufficientAvailable", self)
       ELSE Result("Ok",
                   [self EXCEPT !.tx_for_transaction_state[transaction.tx][1] = "Dispute",
                                !.available = @ - amount,
                                !.held = @ + amount])

\* dispute taking the amount out of available without putting it on hold.
dispute_NoHold(self, transaction) ==
  LET chk == get_tx_state_and_check_state(self.tx_for_transaction_state,
                                          transaction, "Deposit") IN
  IF chk # "Ok" THEN Result(chk, self)
  ELSE LET amount == self.tx_for_transaction_state[transaction.tx][2] IN
       IF self.available < amount
       THEN Result("InsufficientAvailable", self)
       ELSE Result("Ok",
                   [self EXCEPT !.tx_for_transaction_state[transaction.tx][1] = "Dispute",
                                !.available = @ - amount])

\* dispute without the test of available against the entry's amount.
dispute_NoFundsCheck(self, transaction) ==
  LET chk == get_tx_state_and_check_state(self.tx_for_transaction_state,
                                          transaction, "Deposit") IN
  IF chk # "Ok" THEN Result(chk, self)
  ELSE LET amount == self.tx_for_transaction_state[transaction.tx][2] IN
       Result("Ok",
              [self EXCEPT !.tx_for_transaction_state[transaction.tx][1] = "Dispute",
                           !.available = @ - amount,
                           !.held = @ + amount])

\* dispute refusing a locked account, as withdrawal does.
dispute_RejectsLocked(self, transaction) ==
  IF self.locked THEN Result("AccountLocked", self)
  ELSE LET chk == get_tx_state_and_check_state(self.tx_for_transaction_state,
                                               transaction, "Deposit") IN
       IF chk # "Ok" THEN Result(chk, self)
       ELSE LET amount == self.tx_for_transaction_state[transaction.tx][2] IN
            IF self.available < amount
            THEN Result("InsufficientAvailable", self)
            ELSE Result("Ok",
                        [self EXCEPT !.tx_for_transaction_state[transaction.tx][1] = "Dispute",
                                     !.available = @ - amount,
                                     !.held = @ + amount])

dispute(self, transaction) ==
  IF transaction.transaction_type # "Dispute" THEN Result("Panic", self)
  ELSE LET chk == get_tx_state_and_check_state(self.tx_for_transaction_state,
                                               transaction, "Deposit") IN
       IF chk # "Ok" THEN Result(chk, self)
       ELSE LET amount == self.tx_for_transaction_state[transaction.tx][2] IN
            IF self.available < amount
            THEN Result("InsufficientAvailable", self)
            ELSE Result("Ok",
                        [self EXCEPT !.tx_for_transaction_state[transaction.tx][1] = "Dispute",
                                     !.available = @ - amount,
                                     !.held = @ + amount])

\* resolve releasing the hold without giving the amount back to available.
resolve_NoRelease(self, transaction) ==
  LET chk == get_tx_state_and_check_state(self.tx_for_transaction_state,
                                          transaction, "Dispute") IN
  IF chk # "Ok" THEN Result(chk, self)
  ELSE LET amount == self.tx_for_transaction_state[transaction.tx][2] IN
       IF self.held < amount
       THEN Result("InsufficientHeld", self)
       ELSE Result("Ok",
                   [self EXCEPT !.tx_for_transaction_state[transaction.tx][1] = "Deposit",
                                !.held = @ - amount])

\* resolve storing Resolve as the entry's state where the source stores Deposit.
resolve_MarksResolved(self, transaction) ==
  LET chk == get_tx_state_and_check_state(self.tx_for_transaction_state,
                                          transaction, "Dispute") IN
  IF chk # "Ok" THEN Result(chk, self)
  ELSE LET amount == self.tx_for_transaction_state[transaction.tx][2] IN
       IF self.held < amount
       THEN Result("InsufficientHeld", self)
       ELSE Result("Ok",
                   [self EXCEPT !.tx_for_transaction_state[transaction.tx][1] = "Resolve",
                                !.held = @ - amount,
                                !.available = @ + amount])

resolve(self, transaction) ==
  IF transaction.transaction_type # "Resolve" THEN Result("Panic", self)
  ELSE LET chk == get_tx_state_and_check_state(self.tx_for_transaction_state,
                                               transaction, "Dispute") IN
       IF chk # "Ok" THEN Result(chk, self)
       ELSE LET amount == self.tx_for_transaction_state[transaction.tx][2] IN
            IF self.held < amount
            THEN Result("InsufficientHeld", self)
            ELSE Result("Ok",
                        [self EXCEPT !.tx_for_transaction_state[transaction.tx][1] = "Deposit",
                                     !.held = @ - amount,
                                     !.available = @ + amount])

\* chargeback accepting an entry that is not under dispute.
chargeback_FromPosted(self, transaction) ==
  IF transaction.tx \notin DOMAIN self.tx_for_transaction_state
  THEN Result("TxDoesNotExist", self)
  ELSE IF self.tx_for_transaction_state[transaction.tx][1] \notin {"Deposit", "Dispute"}
  THEN Result(get_tx_state_and_check_state(self.tx_for_transaction_state,
                                           transaction, "Dispute"), self)
  ELSE LET amount == self.tx_for_transaction_state[transaction.tx][2] IN
       IF self.held < amount
       THEN Result("InsufficientHeld", self)
       ELSE Result("Ok",
                   [self EXCEPT !.tx_for_transaction_state[transaction.tx][1] = "Chargeback",
                                !.held = @ - amount,
                                !.locked = TRUE])

\* chargeback leaving the account unlocked.
chargeback_NoLock(self, transaction) ==
  LET chk == get_tx_state_and_check_state(self.tx_for_transaction_state,
                                          transaction, "Dispute") IN
  IF chk # "Ok" THEN Result(chk, self)
  ELSE LET amount == self.tx_for_transaction_state[transaction.tx][2] IN
       IF self.held < amount
       THEN Result("InsufficientHeld", self)
       ELSE Result("Ok",
                   [self EXCEPT !.tx_for_transaction_state[transaction.tx][1] = "Chargeback",
                                !.held = @ - amount])

\* chargeback taking the amount from available as well as from held.
chargeback_TakesAvailable(self, transaction) ==
  LET chk == get_tx_state_and_check_state(self.tx_for_transaction_state,
                                          transaction, "Dispute") IN
  IF chk # "Ok" THEN Result(chk, self)
  ELSE LET amount == self.tx_for_transaction_state[transaction.tx][2] IN
       IF self.held < amount
       THEN Result("InsufficientHeld", self)
       ELSE Result("Ok",
                   [self EXCEPT !.tx_for_transaction_state[transaction.tx][1] = "Chargeback",
                                !.held = @ - amount,
                                !.available = @ - amount,
                                !.locked = TRUE])

\* chargeback leaving the charged-back amount on hold.
chargeback_KeepsHeld(self, transaction) ==
  LET chk == get_tx_state_and_check_state(self.tx_for_transaction_state,
                                          transaction, "Dispute") IN
  IF chk # "Ok" THEN Result(chk, self)
  ELSE LET amount == self.tx_for_transaction_state[transaction.tx][2] IN
       IF self.held < amount
       THEN Result("InsufficientHeld", self)
       ELSE Result("Ok",
                   [self EXCEPT !.tx_for_transaction_state[transaction.tx][1] = "Chargeback",
                                !.locked = TRUE])

chargeback(self, transaction) ==
  IF transaction.transaction_type # "Chargeback" THEN Result("Panic", self)
  ELSE LET chk == get_tx_state_and_check_state(self.tx_for_transaction_state,
                                               transaction, "Dispute") IN
       IF chk # "Ok" THEN Result(chk, self)
       ELSE LET amount == self.tx_for_transaction_state[transaction.tx][2] IN
            IF self.held < amount
            THEN Result("InsufficientHeld", self)
            ELSE Result("Ok",
                        [self EXCEPT !.tx_for_transaction_state[transaction.tx][1] = "Chargeback",
                                     !.held = @ - amount,
                                     !.locked = TRUE])

\* match transaction.transaction_type { ... } in the worker loop
\* The match sending a Resolve to dispute and a Dispute to resolve.
Dispatch_Crossed(state, transaction) ==
  CASE transaction.transaction_type = "Deposit"    -> deposit(state, transaction)
    [] transaction.transaction_type = "Withdrawal" -> withdrawal(state, transaction)
    [] transaction.transaction_type = "Dispute"    -> resolve(state, transaction)
    [] transaction.transaction_type = "Resolve"    -> dispute(state, transaction)
    [] transaction.transaction_type = "Chargeback" -> chargeback(state, transaction)

Dispatch(state, transaction) ==
  CASE transaction.transaction_type = "Deposit"    -> deposit(state, transaction)
    [] transaction.transaction_type = "Withdrawal" -> withdrawal(state, transaction)
    [] transaction.transaction_type = "Dispute"    -> dispute(state, transaction)
    [] transaction.transaction_type = "Resolve"    -> resolve(state, transaction)
    [] transaction.transaction_type = "Chargeback" -> chargeback(state, transaction)

\* state_for_client.get_mut(..) or insert of a default ClientState
GetOrCreate(states, c) ==
  IF c \in DOMAIN states THEN states ELSE MapInsert(states, c, DefaultClientState(c))

\* The loop body creating the account only when its first transaction is accepted.
LoopBody_CreatesOnSuccess(states, transaction) ==
  LET with == GetOrCreate(states, transaction.client)
      r == Dispatch(with[transaction.client], transaction)
  IN [res |-> r.res,
      states |-> IF r.res = "Ok" THEN [with EXCEPT ![transaction.client] = r.state]
                 ELSE states]

\* One pass of the worker's `while let Some(transaction)` body over its private map.
\* The loop body applying a Dispute, Resolve or Chargeback to whichever account of the
\* lane holds the transaction id, when the named client's account does not.
LoopBody_FindsOwner(states, transaction) ==
  LET with == GetOrCreate(states, transaction.client)
      owners == {c \in DOMAIN with :
                   transaction.tx \in DOMAIN with[c].tx_for_transaction_state}
      target == IF /\ transaction.transaction_type \in {"Dispute", "Resolve", "Chargeback"}
                   /\ transaction.client \notin owners
                   /\ owners # {}
                THEN CHOOSE c \in owners : TRUE
                ELSE transaction.client
      r == Dispatch(with[target], transaction)
  IN [res |-> r.res,
      states |-> [with EXCEPT ![target] = r.state]]

LoopBody(states, transaction) ==
  LET with == GetOrCreate(states, transaction.client)
      r == Dispatch(with[transaction.client], transaction)
  IN [res |-> r.res,
      states |-> [with EXCEPT ![transaction.client] = r.state]]

\* ------------------------------------------------------------------- state
VARIABLES
  numWorkers,        \* self.workers.len()
  chan,              \* per lane: the mpsc channel's buffered transactions
  closed,            \* per lane: the Sender has been dropped
  wpc,               \* per lane: "running" | "done" | "panicked"
  state_for_client,  \* per lane: the worker's private HashMap<ClientId, ClientState>
  returned,          \* per lane: the Vec<ClientState> the finished worker returned
  ppc,               \* caller: "idle" | "sending" | "closing" | "joining" | "done" | "failed"
  pending,           \* the transaction of the process_transaction call in progress
  ci,                \* index of the lane collect_account_states is at
  client_states,     \* the VecDeque collect_account_states builds
  submitted,         \* history: every transaction handed to process_transaction, in order
  received,          \* history per lane: every transaction its worker received, in order
  last,              \* history: kind, result and lane of the last transaction applied
  before,            \* history: the last transaction received and the state it was applied to
  stalled            \* history: a send has had to wait for a full queue

vars == <<numWorkers, chan, closed, wpc, state_for_client, returned, ppc, pending, ci,
          client_states, submitted, received, last, before, stalled>>

Lanes == 0..(numWorkers - 1)

\* Routing by the transaction id instead of the client id.
WorkerIndex_ByTx(transaction) == transaction.tx % numWorkers

\* (transaction.client as usize) % self.workers.len()
WorkerIndex(transaction) == transaction.client % numWorkers

\* AccountManager::new(num_workers)
Init ==
  /\ numWorkers \in 1..MaxWorkers
  /\ chan = [i \in Lanes |-> <<>>]
  /\ closed = [i \in Lanes |-> FALSE]
  /\ wpc = [i \in Lanes |-> "running"]
  /\ state_for_client = [i \in Lanes |-> <<>>]
  /\ returned = [i \in Lanes |-> <<>>]
  /\ ppc = "idle"
  /\ pending = NoTransaction
  /\ ci = 0
  /\ client_states = <<>>
  /\ submitted = <<>>
  /\ received = [i \in Lanes |-> <<>>]
  /\ last = [transaction_type |-> "None", res |-> "None", lane |-> 0]
  /\ before = [tx |-> NoTransaction, pre |-> DefaultClientState(0)]
  /\ stalled = FALSE

\* The caller invokes process_transaction(transaction).
ProcessTransactionCall(transaction) ==
  /\ ppc = "idle"
  /\ ppc' = "sending"
  /\ pending' = transaction
  /\ submitted' = Append(submitted, transaction)
  /\ stalled' = (stalled \/ Len(chan[WorkerIndex(transaction)]) >= CHANNEL_BUFFER_SIZE)
  /\ UNCHANGED <<numWorkers, chan, closed, wpc, state_for_client, returned, ci,
                 client_states, received, last, before>>

\* sender.send(transaction).await completes: it needs a free slot of the bounded channel,
\* and fails when the receiver is gone.
\* The send going through whatever the number of buffered transactions.
ProcessTransactionSend_Unbounded ==
  /\ ppc = "sending"
  /\ LET i == WorkerIndex(pending) IN
       IF wpc[i] # "running"
       THEN /\ ppc' = "failed"
            /\ chan' = chan
       ELSE /\ chan' = [chan EXCEPT ![i] = Append(@, pending)]
            /\ ppc' = "idle"
  /\ pending' = NoTransaction
  /\ UNCHANGED <<numWorkers, closed, wpc, state_for_client, returned, ci, client_states,
                 submitted, received, last, before, stalled>>

\* The send putting the transaction at the head of the lane's queue.
ProcessTransactionSend_Prepends ==
  /\ ppc = "sending"
  /\ LET i == WorkerIndex(pending) IN
       IF wpc[i] # "running"
       THEN /\ ppc' = "failed"
            /\ chan' = chan
       ELSE /\ Len(chan[i]) < CHANNEL_BUFFER_SIZE
            /\ chan' = [chan EXCEPT ![i] = <<pending>> \o @]
            /\ ppc' = "idle"
  /\ pending' = NoTransaction
  /\ UNCHANGED <<numWorkers, closed, wpc, state_for_client, returned, ci, client_states,
                 submitted, received, last, before, stalled>>

ProcessTransactionSend ==
  /\ ppc = "sending"
  /\ LET i == WorkerIndex(pending) IN
       IF wpc[i] # "running"
       THEN /\ ppc' = "failed"
            /\ chan' = chan
       ELSE /\ Len(chan[i]) < CHANNEL_BUFFER_SIZE
            /\ chan' = [chan EXCEPT ![i] = Append(@, pending)]
            /\ ppc' = "idle"
  /\ pending' = NoTransaction
  /\ UNCHANGED <<numWorkers, closed, wpc, state_for_client, returned, ci, client_states,
                 submitted, received, last, before, stalled>>

\* process_account_transactions, lines 225-248: the loop body of worker i on one
\* transaction (lookup or lazy creation, dispatch, report of an error).
\* The loop body ending the worker with the error of a rejected transaction.
RunLoopBody_ReturnsOnError(i, transaction) ==
  LET r == LoopBody(state_for_client[i], transaction)
  IN /\ state_for_client' = [state_for_client EXCEPT ![i] = r.states]
     /\ wpc' = [wpc EXCEPT ![i] = IF r.res # "Ok" THEN "panicked" ELSE "running"]
     /\ last' = [transaction_type |-> transaction.transaction_type, res |-> r.res,
                 lane |-> i]

RunLoopBody(i, transaction) ==
  LET r == LoopBody(state_for_client[i], transaction)
  IN /\ state_for_client' = [state_for_client EXCEPT ![i] = r.states]
     /\ wpc' = [wpc EXCEPT ![i] = IF r.res = "Panic" THEN "panicked" ELSE "running"]
     /\ last' = [transaction_type |-> transaction.transaction_type, res |-> r.res,
                 lane |-> i]

\* process_account_transactions: rx.recv() yields Some(transaction); the loop body runs.
WorkerRecv(i) ==
  /\ i \in Lanes
  /\ wpc[i] = "running"
  /\ chan[i] # <<>>
  /\ RunLoopBody(i, Head(chan[i]))
  /\ received' = [received EXCEPT ![i] = Append(@, Head(chan[i]))]
  /\ before' = [tx |-> Head(chan[i]),
                pre |-> GetOrCreate(state_for_client[i], Head(chan[i]).client)
                          [Head(chan[i]).client]]
  /\ chan' = [chan EXCEPT ![i] = Tail(@)]
  /\ UNCHANGED <<numWorkers, closed, returned, ppc, pending, ci, client_states,
                 submitted, stalled>>

\* All orders in which HashMap::into_values may yield the values of m.
ValueOrders(m) ==
  LET n == Cardinality(DOMAIN m) IN
  {[k \in 1..n |-> m[o[k]]] :
     o \in {f \in [1..n -> DOMAIN m] : \A a, b \in 1..n : a # b => f[a] # f[b]}}

\* The worker returning as soon as its channel is closed, backlog or not.
WorkerReturn_Early(i) ==
  /\ i \in Lanes
  /\ wpc[i] = "running"
  /\ closed[i]
  /\ \E v \in ValueOrders(state_for_client[i]) : returned' = [returned EXCEPT ![i] = v]
  /\ wpc' = [wpc EXCEPT ![i] = "done"]
  /\ UNCHANGED <<numWorkers, chan, closed, state_for_client, ppc, pending, ci,
                 client_states, submitted, received, last, before, stalled>>

\* process_account_transactions: rx.recv() yields None (channel closed and empty);
\* the worker returns Ok(state_for_client.into_values().collect()).
WorkerReturn(i) ==
  /\ i \in Lanes
  /\ wpc[i] = "running"
  /\ chan[i] = <<>>
  /\ closed[i]
  /\ \E v \in ValueOrders(state_for_client[i]) : returned' = [returned EXCEPT ![i] = v]
  /\ wpc' = [wpc EXCEPT ![i] = "done"]
  /\ UNCHANGED <<numWorkers, chan, closed, state_for_client, ppc, pending, ci,
                 client_states, submitted, received, last, before, stalled>>

\* The caller invokes collect_account_states(self).
CollectCall ==
  /\ ppc = "idle"
  /\ ppc' = "closing"
  /\ ci' = 0
  /\ UNCHANGED <<numWorkers, chan, closed, wpc, state_for_client, returned, pending,
                 client_states, submitted, received, last, before, stalled>>

\* collect_account_states going on to the join without dropping the sender.
CollectDrop_KeepsSender ==
  /\ ppc = "closing"
  /\ ppc' = "joining"
  /\ UNCHANGED <<numWorkers, chan, closed, wpc, state_for_client, returned, pending, ci,
                 client_states, submitted, received, last, before, stalled>>

\* collect_account_states: drop(sender) of the lane it is at.
CollectDrop ==
  /\ ppc = "closing"
  /\ closed' = [closed EXCEPT ![ci] = TRUE]
  /\ ppc' = "joining"
  /\ UNCHANGED <<numWorkers, chan, wpc, state_for_client, returned, pending, ci,
                 client_states, submitted, received, last, before, stalled>>

\* collect_account_states: join_handle.await?? of the lane it is at, then the append.
CollectJoin ==
  /\ ppc = "joining"
  /\ wpc[ci] # "running"
  /\ IF wpc[ci] = "panicked"
     THEN /\ ppc' = "failed"
          /\ UNCHANGED <<ci, client_states>>
     ELSE /\ client_states' = client_states \o returned[ci]
          /\ ci' = ci + 1
          /\ ppc' = IF ci + 1 = numWorkers THEN "done" ELSE "closing"
  /\ UNCHANGED <<numWorkers, chan, closed, wpc, state_for_client, returned, pending,
                 submitted, received, last, before, stalled>>

\* The program's steps, whatever the input.
Steps ==
  \/ ProcessTransactionSend
  \/ \E i \in Lanes : WorkerRecv(i)
  \/ \E i \in Lanes : WorkerReturn(i)
  \/ CollectCall
  \/ CollectDrop
  \/ CollectJoin

\* ------------------------------------------------------------------ inputs

\* Under Spec: a short stream for every client: a deposit, a smaller withdrawal, and a
\* dispute and a chargeback of the deposit.
PoolInput ==
  {t \in Transaction :
     \/ t.transaction_type = "Deposit" /\ t.tx = 1 /\ t.amount = <<MaxAmount>>
     \/ t.transaction_type = "Withdrawal" /\ t.tx = 2 /\ t.amount = <<1>>
     \/ t.transaction_type \in {"Dispute", "Chargeback"}
          /\ t.tx = 1 /\ t.amount = <<>>}

Submit ==
  /\ Len(submitted) < MaxTx
  /\ \E t \in PoolInput : ProcessTransactionCall(t)

Next == Submit \/ Steps

Spec == Init /\ [][Next]_vars

\* Under AccountSpec: one lane and one account; any transaction of the account may
\* arrive next, of any kind, id and amount (absent, negative, zero or positive). The
\* channel is left out: the worker's loop body runs on the transaction as it arrives.
AccountInput ==
  {t \in Transaction :
     /\ t.client = 0
     /\ (t.transaction_type \in {"Dispute", "Resolve", "Chargeback"}
           => t.amount \in {<<>>, <<MaxAmount>>})}

AccountInit == Init /\ numWorkers = 1

AccountStep ==
  \E t \in AccountInput :
    /\ wpc[WorkerIndex(t)] = "running"
    /\ RunLoopBody(WorkerIndex(t), t)
    /\ UNCHANGED <<numWorkers, chan, closed, returned, ppc, pending, ci, client_states,
                   submitted, received, before, stalled>>

AccountSpec == AccountInit /\ [][AccountStep]_vars

\* Under LaneSpec: the lanes with their accounts and no channel: the loop body of the
\* transaction's lane runs on the transaction as it arrives. The input is that of the
\* pool and, for every client, every Dispute, Resolve and Chargeback of any id.
LaneInput ==
  PoolInput \cup {t \in Transaction :
                    /\ t.transaction_type \in {"Dispute", "Resolve", "Chargeback"}
                    /\ t.amount = <<>>}

LaneStep ==
  \E t \in LaneInput :
    /\ wpc[WorkerIndex(t)] = "running"
    /\ RunLoopBody(WorkerIndex(t), t)
    /\ before' = [tx |-> t,
                  pre |-> GetOrCreate(state_for_client[WorkerIndex(t)], t.client)[t.client]]
    /\ UNCHANGED <<numWorkers, chan, closed, returned, ppc, pending, ci, client_states,
                   submitted, received, stalled>>

LaneSpec == Init /\ [][LaneStep]_vars

\* Under LiveSpec: a stream long enough to fill a lane's queue: deposits, the first
\* MaxFree of them to any client, the rest to client 0.
LiveInput(k) ==
  {t \in Transaction :
     /\ t.transaction_type = "Deposit" /\ t.tx = 1 /\ t.amount = <<1>>
     /\ (k > MaxFree => t.client = 0)}

SubmitLive ==
  /\ Len(submitted) < CHANNEL_BUFFER_SIZE + MaxOver
  /\ \E t \in LiveInput(Len(submitted) + 1) : ProcessTransactionCall(t)

LiveNext == SubmitLive \/ Steps

\* Under QueueSpec: the stream of LiveSpec, long enough to fill a lane's queue, with no
\* assumption on the scheduling.
QueueSpec == Init /\ [][LiveNext]_vars

\* The runtime schedules the caller's task and every spawned worker task: a task that
\* can take a step eventually takes one. The caller reads its finite input to the end
\* and then collects.
Fairness ==
  /\ WF_vars(SubmitLive \/ CollectCall \/ ProcessTransactionSend \/ CollectDrop
               \/ CollectJoin)
  /\ \A i \in 0..(MaxWorkers - 1) : WF_vars(WorkerRecv(i) \/ WorkerReturn(i))

LiveSpec == Init /\ [][LiveNext]_vars /\ Fairness

\* ==================================================================== claims

\* The subsequence of a sequence of transactions that is routed to lane i.
OfLane(seq, i) == SelectSeq(seq, LAMBDA t : t.client % numWorkers = i)
\* The subsequence of a sequence of transactions that belongs to client c.
OfClient(seq, c) == SelectSeq(seq, LAMBDA t : t.client = c)
\* The transaction of a process_transaction call that has not completed, if it is lane i's.
InFlight(i) ==
  IF ppc = "sending" /\ pending.client % numWorkers = i THEN <<pending>> ELSE <<>>
IsPrefix(a, b) == Len(a) <= Len(b) /\ a = SubSeq(b, 1, Len(a))
Elems(seq) == {seq[k] : k \in 1..Len(seq)}
Ledger(st) == st.tx_for_transaction_state
\* Under AccountSpec: the worker's map, and the account as the next transaction finds it.
TheMap == state_for_client[0]
TheAccount == GetOrCreate(TheMap, 0)[0]

\* C1: whatever the lane count and the interleaving, what lane i's worker has received,
\* followed by what waits in its queue and by the send in progress, is exactly the
\* transactions submitted for the clients c with c mod N = i, in submission order; so
\* every transaction of client c reaches worker c mod N and no other, and that worker
\* applies c's transactions in the order of their submission.
C1_ShardingOrder ==
  /\ \A i \in Lanes : received[i] \o chan[i] \o InFlight(i) = OfLane(submitted, i)
  /\ \A c \in ClientId :
       /\ IsPrefix(OfClient(received[c % numWorkers], c), OfClient(submitted, c))
       /\ \A i \in Lanes \ {c % numWorkers} :
            OfClient(received[i], c) = <<>> /\ OfClient(chan[i], c) = <<>>

\* Two lanes; a client's two transactions were submitted around another client's, and
\* all three have been applied.
C1_Witness ==
  /\ numWorkers = 2
  /\ Len(submitted) = 3
  /\ submitted[1].client = submitted[3].client
  /\ submitted[1].client # submitted[2].client
  /\ \A i \in Lanes : chan[i] = <<>>
  /\ ppc = "idle"
  /\ \E i \in Lanes : Len(received[i]) = 2

\* C2: the key sets of two workers' private maps are disjoint, and the state of client
\* c exists only in the map of worker c mod N.
C2_PrivateMaps ==
  /\ \A i, j \in Lanes :
       i # j => (DOMAIN state_for_client[i]) \cap (DOMAIN state_for_client[j]) = {}
  /\ \A i \in Lanes : \A c \in DOMAIN state_for_client[i] :
       c % numWorkers = i /\ state_for_client[i][c].client = c

\* Two lanes, each owning an account.
C2_Witness ==
  /\ numWorkers = 2
  /\ \A i \in Lanes : state_for_client[i] # <<>>

\* C3: a lane whose states collect_account_states has taken (lane i < ci) is closed,
\* its worker has terminated after applying every transaction submitted to the lane
\* with none left in the queue, and the states handed to the caller are those of the
\* collected lanes' maps as they are now: nothing changes them after collection.
C3_CollectedAfterTermination ==
  /\ \A i \in Lanes :
       i < ci =>
         /\ closed[i]
         /\ wpc[i] = "done"
         /\ chan[i] = <<>>
         /\ received[i] = OfLane(submitted, i)
         /\ Elems(returned[i]) = {state_for_client[i][c] : c \in DOMAIN state_for_client[i]}
         /\ Elems(returned[i]) \subseteq Elems(client_states)
  /\ \A s \in Elems(client_states) :
       \E i \in Lanes : i < ci /\ s.client \in DOMAIN state_for_client[i]
                               /\ s = state_for_client[i][s.client]

\* Lane 0 has been collected with two transactions applied, while lane 1 still runs
\* with a transaction in its queue.
C3_Witness ==
  /\ numWorkers = 2
  /\ ci = 1
  /\ Len(received[0]) = 2
  /\ client_states # <<>>
  /\ wpc[1] = "running"
  /\ chan[1] # <<>>

\* C4: under fair scheduling of the workers and of the caller, every process_transaction
\* call completes, also one that found its lane's queue full, and collect_account_states
\* returns with every worker terminated.
C4_RunFinishes ==
  /\ <>(ppc = "done" /\ \A i \in Lanes : wpc[i] = "done")
  /\ ((ppc = "sending") ~> (ppc = "idle"))

\* The run has finished on two lanes, both with transactions applied, after a send had
\* to wait for a full queue.
C4_Witness ==
  /\ ppc = "done"
  /\ stalled
  /\ numWorkers = 2
  /\ \A i \in Lanes : wpc[i] = "done" /\ received[i] # <<>>

\* C5: once collect_account_states has returned, the collection holds exactly one
\* ClientState for every client id of a submitted transaction and none for any other;
\* an account none of whose transactions was accepted (its ledger is empty) is there
\* too, with available 0, held 0 and locked false.
C5_OneStatePerClient ==
  ppc = "done" =>
    /\ {s.client : s \in Elems(client_states)} = {t.client : t \in Elems(submitted)}
    /\ Len(client_states) = Cardinality({t.client : t \in Elems(submitted)})
    /\ \A s \in Elems(client_states) :
         Ledger(s) = <<>> => s = DefaultClientState(s.client)

\* Collected: an account all of whose transactions were rejected, beside an account
\* with an accepted deposit.
C5_Witness ==
  /\ ppc = "done"
  /\ \E s \in Elems(client_states) : Ledger(s) = <<>>
  /\ \E s \in Elems(client_states) : Ledger(s) # <<>>
  /\ last.res # "Ok"

\* C6: whatever transaction arrives in whatever reachable account state, if the
\* operation returns an error then available, held, locked and every ledger entry are
\* as before (a fresh account stays as created).
C6_NoPartialMutation ==
  \A t \in AccountInput :
    LET r == LoopBody(TheMap, t) IN
    r.res # "Ok" => r.states = GetOrCreate(TheMap, t.client)

\* A dispute has just been rejected for lack of available funds, with a withdrawal on
\* the ledger.
C6_Witness ==
  /\ last.transaction_type = "Dispute"
  /\ last.res = "InsufficientAvailable"
  /\ \E x \in DOMAIN Ledger(TheAccount) : Ledger(TheAccount)[x][1] = "Withdrawal"

\* C7 as stated: a Deposit or Withdrawal that reuses an id on the ledger always fails
\* with the duplicate-id error and changes nothing, whatever the state of the account.
C7_DuplicateAlwaysDuplicateError ==
  \A t \in AccountInput :
    (t.transaction_type \in {"Deposit", "Withdrawal"} /\ t.tx \in DOMAIN Ledger(TheAccount))
      => LET r == LoopBody(TheMap, t) IN
         r.res = "AlreadyProcessed" /\ r.states = GetOrCreate(TheMap, t.client)

\* C7 amended: a Deposit or Withdrawal that reuses an id on the ledger always fails and
\* changes nothing, whatever the lifecycle state of the entry; the error is the
\* duplicate-id error, except for a Withdrawal on a locked account, which fails with
\* the account-locked error.
C7_DuplicateRejected ==
  \A t \in AccountInput :
    (t.transaction_type \in {"Deposit", "Withdrawal"} /\ t.tx \in DOMAIN Ledger(TheAccount))
      => LET r == LoopBody(TheMap, t) IN
         /\ r.states = GetOrCreate(TheMap, t.client)
         /\ r.res = IF t.transaction_type = "Withdrawal" /\ TheAccount.locked
                    THEN "AccountLocked" ELSE "AlreadyProcessed"

\* A deposit has just been rejected as a duplicate on a locked account whose only
\* ledger entry is charged back.
C7_Witness ==
  /\ last.transaction_type = "Deposit"
  /\ last.res = "AlreadyProcessed"
  /\ TheAccount.locked
  /\ \A x \in DOMAIN Ledger(TheAccount) : Ledger(TheAccount)[x][1] = "Chargeback"

\* Some other account than the one the last transaction was applied to holds a ledger
\* entry for that transaction's id.
IdHeldElsewhere ==
  \E i \in Lanes : \E c \in DOMAIN state_for_client[i] :
    c # before.tx.client /\ before.tx.tx \in DOMAIN Ledger(state_for_client[i][c])

\* C8 as stated: a Deposit or Withdrawal whose id was already accepted for a different
\* account is rejected.
C8_UniqueAcrossAccounts ==
  (last.transaction_type \in {"Deposit", "Withdrawal"} /\ IdHeldElsewhere)
    => last.res # "Ok"

\* C8 amended: the id check is per account. A Deposit or Withdrawal whose id is on the
\* ledger of its own account is rejected and leaves the account as it was; an id that
\* is only on other accounts' ledgers is no duplicate, and a Deposit carrying it, with
\* an amount, is accepted.
C8_UniquePerAccount ==
  last.transaction_type \in {"Deposit", "Withdrawal"} =>
    /\ before.tx.tx \in DOMAIN Ledger(before.pre) =>
         /\ last.res \in {"AlreadyProcessed", "AccountLocked"}
         /\ state_for_client[last.lane][before.tx.client] = before.pre
    /\ (/\ last.transaction_type = "Deposit"
        /\ before.tx.amount # <<>>
        /\ before.tx.tx \notin DOMAIN Ledger(before.pre))
         => last.res = "Ok"

\* A deposit has just been accepted although another account had accepted its id.
C8_Witness ==
  /\ last.transaction_type = "Deposit"
  /\ last.res = "Ok"
  /\ IdHeldElsewhere

\* C9: a Withdrawal on an unlocked account, with an id not on the ledger and an amount,
\* succeeds exactly when available > amount; when it succeeds, available is lowered by
\* the amount, held and locked are unchanged and the ledger gains the entry
\* (Withdrawal, amount) under the id.
C9_WithdrawalStrict ==
  \A t \in AccountInput :
    (/\ t.transaction_type = "Withdrawal"
     /\ ~TheAccount.locked
     /\ t.tx \notin DOMAIN Ledger(TheAccount)
     /\ t.amount # <<>>)
      => LET r == LoopBody(TheMap, t)
             post == r.states[t.client]
         IN /\ (r.res = "Ok") <=> (TheAccount.available > t.amount[1])
            /\ r.res # "Ok" => r.res = "InsufficientAvailable" /\ post = TheAccount
            /\ r.res = "Ok" =>
                 /\ post.available = TheAccount.available - t.amount[1]
                 /\ post.held = TheAccount.held
                 /\ post.locked = TheAccount.locked
                 /\ post.client = TheAccount.client
                 /\ DOMAIN Ledger(post) = DOMAIN Ledger(TheAccount) \cup {t.tx}
                 /\ Ledger(post)[t.tx] = <<"Withdrawal", t.amount[1]>>
                 /\ \A x \in DOMAIN Ledger(TheAccount) :
                      Ledger(post)[x] = Ledger(TheAccount)[x]

\* A withdrawal has just been rejected for lack of funds, and a withdrawal of exactly
\* the available balance, which is positive, can arrive next.
C9_Witness ==
  /\ last.transaction_type = "Withdrawal"
  /\ last.res = "InsufficientAvailable"
  /\ ~TheAccount.locked
  /\ TheAccount.available > 0
  /\ \E t \in AccountInput :
       /\ t.transaction_type = "Withdrawal"
       /\ t.tx \notin DOMAIN Ledger(TheAccount)
       /\ t.amount = <<TheAccount.available>>

\* C10: right after a successfully applied Withdrawal, available >= 0.
C10_AvailableAfterWithdrawal ==
  (last.transaction_type = "Withdrawal" /\ last.res = "Ok") => TheAccount.available >= 0

\* A withdrawal has just been accepted on an account that holds disputed funds.
C10_Witness ==
  /\ last.transaction_type = "Withdrawal"
  /\ last.res = "Ok"
  /\ TheAccount.held > 0

\* C11: for every sequence of transactions to one account, Deposit amounts of either
\* sign included, held >= 0 right after every successfully applied Dispute, Resolve and
\* Chargeback.
C11_HeldAfterDisputeOps ==
  (last.transaction_type \in {"Dispute", "Resolve", "Chargeback"} /\ last.res = "Ok")
    => TheAccount.held >= 0

\* C12: a Dispute naming the id of an accepted Withdrawal fails in every account state,
\* and leaves the balances and the withdrawal's ledger entry as they were.
C12_DisputeOfWithdrawalFails ==
  \A t \in AccountInput :
    (/\ t.transaction_type = "Dispute"
     /\ t.tx \in DOMAIN Ledger(TheAccount)
     /\ Ledger(TheAccount)[t.tx][1] = "Withdrawal")
      => LET r == LoopBody(TheMap, t) IN
         /\ r.res = "CannotDisputeWithdrawal"
         /\ r.states = GetOrCreate(TheMap, t.client)

\* A Dispute of an accepted Withdrawal has just been rejected.
C12_Witness ==
  /\ last.transaction_type = "Dispute"
  /\ last.res = "CannotDisputeWithdrawal"
  /\ \E x \in DOMAIN Ledger(TheAccount) : Ledger(TheAccount)[x][1] = "Withdrawal"

\* C13: a Dispute, Resolve or Chargeback naming an id that has no ledger entry in the
\* account fails with the not-found error and changes nothing.
C13_UnknownIdNotFound ==
  \A t \in AccountInput :
    (/\ t.transaction_type \in {"Dispute", "Resolve", "Chargeback"}
     /\ t.tx \notin DOMAIN Ledger(TheAccount))
      => LET r == LoopBody(TheMap, t) IN
         /\ r.res = "TxDoesNotExist"
         /\ r.states = GetOrCreate(TheMap, t.client)

\* An id that is not in the ledger has just been named, while another id is.
C13_Witness ==
  /\ last.res = "TxDoesNotExist"
  /\ Ledger(TheAccount) # <<>>
  /\ \E x \in TxId : x \notin DOMAIN Ledger(TheAccount)

\* C14: a Dispute of a Posted entry succeeds exactly when available >= the entry's
\* amount; on success the entry becomes Disputed, available falls and held rises by the
\* entry's amount, and locked stays; the amount is the ledger entry's, whatever amount
\* the Dispute record carries.
C14_DisputeOfPosted ==
  \A t \in AccountInput :
    (/\ t.transaction_type = "Dispute"
     /\ t.tx \in DOMAIN Ledger(TheAccount)
     /\ Ledger(TheAccount)[t.tx][1] = "Deposit")
      => LET r == LoopBody(TheMap, t)
             pre == TheAccount
             post == r.states[t.client]
             amount == Ledger(pre)[t.tx][2]
         IN /\ r.res = "Ok" <=> pre.available >= amount
            /\ r.res # "Ok" => r.res = "InsufficientAvailable"
            /\ r.res = "Ok" =>
                 /\ Ledger(post) = [Ledger(pre) EXCEPT ![t.tx] = <<"Dispute", amount>>]
                 /\ post.available = pre.available - amount
                 /\ post.held = pre.held + amount
                 /\ post.locked = pre.locked

\* A Dispute has just succeeded on an entry whose amount is not the one a Dispute record
\* of the input can carry, and the amount is on hold.
C14_Witness ==
  /\ last.transaction_type = "Dispute"
  /\ last.res = "Ok"
  /\ \E x \in DOMAIN Ledger(TheAccount) :
       /\ Ledger(TheAccount)[x] = <<"Dispute", 1>>
       /\ TheAccount.held = 1
  /\ MaxAmount # 1

\* C15: Resolve and Chargeback succeed only on a Disputed entry; on an entry that is
\* Posted, tagged Withdrawal, or Chargebacked they fail and change nothing.
C15_ResolveChargebackNeedDispute ==
  \A t \in AccountInput :
    t.transaction_type \in {"Resolve", "Chargeback"}
      => LET r == LoopBody(TheMap, t) IN
         /\ r.res = "Ok" =>
              /\ t.tx \in DOMAIN Ledger(TheAccount)
              /\ Ledger(TheAccount)[t.tx][1] = "Dispute"
         /\ (/\ t.tx \in DOMAIN Ledger(TheAccount)
             /\ Ledger(TheAccount)[t.tx][1] \in {"Deposit", "Withdrawal", "Chargeback"})
              => /\ r.res \in {"NotUnderDispute", "CannotDisputeWithdrawal",
                               "AlreadyChargebacked"}
                 /\ r.states = GetOrCreate(TheMap, t.client)

\* A Chargeback of a Posted entry has just been rejected, and the entry is still Posted.
C15_Witness ==
  /\ last.transaction_type = "Chargeback"
  /\ last.res = "NotUnderDispute"
  /\ \E x \in DOMAIN Ledger(TheAccount) : Ledger(TheAccount)[x][1] = "Deposit"

\* C16: a Dispute followed at once by a Resolve of the same id is a round trip: when
\* both succeed, available, held, locked and the entry (Posted again) are what they
\* were before the Dispute.
C16_DisputeResolveRoundTrip ==
  \A d \in AccountInput :
    d.transaction_type = "Dispute"
      => LET r1 == LoopBody(TheMap, d) IN
         r1.res = "Ok" =>
           \A s \in AccountInput :
             (s.transaction_type = "Resolve" /\ s.tx = d.tx)
               => LET r2 == LoopBody(r1.states, s) IN
                  r2.res = "Ok"
                    => /\ r2.states = GetOrCreate(TheMap, d.client)
                       /\ Ledger(r2.states[d.client])[d.tx][1] = "Deposit"

\* A Resolve has just succeeded: the entry is Posted again, its amount is back in
\* available and nothing is on hold.
C16_Witness ==
  /\ last.transaction_type = "Resolve"
  /\ last.res = "Ok"
  /\ \E x \in DOMAIN Ledger(TheAccount) :
       /\ Ledger(TheAccount)[x] = <<"Deposit", MaxAmount>>
       /\ TheAccount.available = MaxAmount
  /\ TheAccount.held = 0

\* C17: after a successful Dispute and Resolve of an id, a second Dispute of that id
\* succeeds and puts the account (available, held, locked, entry Disputed) in the state
\* it had right after the first Dispute.
C17_RedisputeAfterResolve ==
  \A d \in AccountInput :
    d.transaction_type = "Dispute"
      => LET r1 == LoopBody(TheMap, d) IN
         r1.res = "Ok" =>
           \A s \in AccountInput :
             (s.transaction_type = "Resolve" /\ s.tx = d.tx)
               => LET r2 == LoopBody(r1.states, s) IN
                  r2.res = "Ok"
                    => \A e \in AccountInput :
                         (e.transaction_type = "Dispute" /\ e.tx = d.tx)
                           => LET r3 == LoopBody(r2.states, e) IN
                              /\ r3.res = "Ok"
                              /\ r3.states = r1.states
                              /\ Ledger(r3.states[d.client])[d.tx][1] = "Dispute"

\* A Resolve has just succeeded and a Dispute of the resolved entry succeeds from here,
\* putting its amount on hold again.
C17_Witness ==
  /\ last.transaction_type = "Resolve"
  /\ last.res = "Ok"
  /\ \E d \in AccountInput :
       /\ d.transaction_type = "Dispute"
       /\ d.tx \in DOMAIN Ledger(TheAccount)
       /\ Ledger(TheAccount)[d.tx] = <<"Deposit", MaxAmount>>
       /\ LoopBody(TheMap, d).res = "Ok"
       /\ LoopBody(TheMap, d).states[d.client].held = TheAccount.held + MaxAmount

\* C18: a charged-back entry is terminal: every later Dispute, Resolve or Chargeback of
\* its id fails and changes nothing, and no transaction of any kind changes the entry,
\* so it stays Chargebacked and its amount is never held or deducted again.
C18_ChargebackTerminal ==
  \A x \in DOMAIN Ledger(TheAccount) :
    Ledger(TheAccount)[x][1] = "Chargeback"
      => \A t \in AccountInput :
           LET r == LoopBody(TheMap, t) IN
           /\ Ledger(r.states[t.client])[x] = Ledger(TheAccount)[x]
           /\ (t.tx = x /\ t.transaction_type \in {"Dispute", "Resolve", "Chargeback"})
                => /\ r.res = "AlreadyChargebacked"
                   /\ r.states = GetOrCreate(TheMap, t.client)

\* A Dispute of a charged-back entry has just been rejected.
C18_Witness ==
  /\ last.transaction_type = "Dispute"
  /\ last.res = "AlreadyChargebacked"
  /\ \E x \in DOMAIN Ledger(TheAccount) : Ledger(TheAccount)[x][1] = "Chargeback"

\* C19: the account is locked exactly when a Chargeback has succeeded on it (an entry is
\* Chargebacked); a successful Chargeback locks it, nothing else does, and a locked
\* account stays locked after any transaction, successful or not.
C19_LockedMonotone ==
  /\ TheAccount.locked <=>
       \E x \in DOMAIN Ledger(TheAccount) : Ledger(TheAccount)[x][1] = "Chargeback"
  /\ \A t \in AccountInput :
       LET r == LoopBody(TheMap, t)
           post == r.states[t.client]
       IN /\ TheAccount.locked => post.locked
          /\ (t.transaction_type = "Chargeback" /\ r.res = "Ok") => post.locked
          /\ (post.locked /\ ~TheAccount.locked)
               => (t.transaction_type = "Chargeback" /\ r.res = "Ok")

\* A Deposit has just succeeded on a locked account, which is still locked.
C19_Witness ==
  /\ TheAccount.locked
  /\ last.transaction_type = "Deposit"
  /\ last.res = "Ok"

\* C20: a successful Chargeback lowers held by the entry's amount and leaves available
\* alone, so the total drops by the amount; an account whose only transaction was
\* deposited, disputed and charged back has available 0, held 0 and is locked.
C20_ChargebackEffect ==
  /\ \A t \in AccountInput :
       t.transaction_type = "Chargeback"
         => LET r == LoopBody(TheMap, t)
                pre == TheAccount
                post == r.states[t.client]
            IN r.res = "Ok" =>
                 LET amount == Ledger(pre)[t.tx][2] IN
                 /\ Ledger(pre)[t.tx][1] = "Dispute"
                 /\ post.held = pre.held - amount
                 /\ post.available = pre.available
                 /\ post.available + post.held = pre.available + pre.held - amount
  /\ \A x \in DOMAIN Ledger(TheAccount) :
       (DOMAIN Ledger(TheAccount) = {x} /\ Ledger(TheAccount)[x][1] = "Chargeback")
         => /\ TheAccount.available = 0
            /\ TheAccount.held = 0
            /\ TheAccount.locked

\* The only transaction of the account, a deposit of a positive amount, has just been
\* charged back.
C20_Witness ==
  /\ last.transaction_type = "Chargeback"
  /\ last.res = "Ok"
  /\ \E x \in TxId :
       /\ DOMAIN Ledger(TheAccount) = {x}
       /\ Ledger(TheAccount)[x] = <<"Chargeback", MaxAmount>>
  /\ TheAccount.available = 0
  /\ TheAccount.held = 0
  /\ TheAccount.locked

\* C21: on a locked account every Withdrawal is rejected, whatever its amount and the
\* available balance, and changes nothing, while a Deposit with a fresh id and an amount
\* is accepted and adds its amount to available.
C21_LockedAccount ==
  TheAccount.locked =>
    \A t \in AccountInput :
      LET r == LoopBody(TheMap, t)
          post == r.states[t.client]
      IN /\ t.transaction_type = "Withdrawal"
              => /\ r.res = "AccountLocked"
                 /\ r.states = GetOrCreate(TheMap, t.client)
         /\ (/\ t.transaction_type = "Deposit"
             /\ t.tx \notin DOMAIN Ledger(TheAccount)
             /\ t.amount # <<>>)
              => /\ r.res = "Ok"
                 /\ post.available = TheAccount.available + t.amount[1]
                 /\ post.held = TheAccount.held
                 /\ post.locked
                 /\ Ledger(post) = MapInsert(Ledger(TheAccount), t.tx,
                                             <<"Deposit", t.amount[1]>>)

\* A locked account holding funds has just rejected a Withdrawal.
C21_Witness ==
  /\ TheAccount.locked
  /\ TheAccount.available > 0
  /\ last.transaction_type = "Withdrawal"
  /\ last.res = "AccountLocked"

\* The sum of the amounts of the entries of a ledger whose lifecycle tag is in tags.
RECURSIVE SumOver(_, _, _)
SumOver(ledger, ids, tags) ==
  IF ids = {} THEN 0
  ELSE LET x == CHOOSE y \in ids : TRUE IN
       (IF ledger[x][1] \in tags THEN ledger[x][2] ELSE 0)
         + SumOver(ledger, ids \ {x}, tags)

SumOfEntries(st, tags) == SumOver(Ledger(st), DOMAIN Ledger(st), tags)

\* Every amount the account has accepted, in a Deposit or a Withdrawal, is >= 0.
AmountsNonNegative(st) == \A x \in DOMAIN Ledger(st) : Ledger(st)[x][2] >= 0

\* C25: in every reachable state of an account held is the sum of the amounts of the
\* entries now Disputed; so, when all amounts are >= 0, a Resolve or Chargeback of a
\* Disputed entry is never rejected for insufficient held funds.
C25_HeldIsSumOfDisputed ==
  /\ TheAccount.held = SumOfEntries(TheAccount, {"Dispute"})
  /\ AmountsNonNegative(TheAccount) =>
       \A t \in AccountInput :
         t.transaction_type \in {"Resolve", "Chargeback"}
           => LoopBody(TheMap, t).res # "InsufficientHeld"

\* All accepted amounts are >= 0, two deposits of positive amounts are under dispute
\* together after a successful Dispute, and held is their sum.
C25_Witness ==
  /\ AmountsNonNegative(TheAccount)
  /\ last.transaction_type = "Dispute"
  /\ last.res = "Ok"
  /\ Cardinality({x \in DOMAIN Ledger(TheAccount) :
                    Ledger(TheAccount)[x][1] = "Dispute"
                      /\ Ledger(TheAccount)[x][2] > 0}) = 2
  /\ TheAccount.held > MaxAmount

\* C26: in every reachable state of an account available + held is the sum of the
\* accepted Deposits, less the sum of the accepted Withdrawals, less the sum of the
\* entries now Chargebacked; a Dispute or a Resolve never changes available + held.
C26_Conservation ==
  /\ TheAccount.available + TheAccount.held =
       SumOfEntries(TheAccount, {"Deposit", "Dispute", "Chargeback"})
         - SumOfEntries(TheAccount, {"Withdrawal"})
         - SumOfEntries(TheAccount, {"Chargeback"})
  /\ \A t \in AccountInput :
       t.transaction_type \in {"Dispute", "Resolve"}
         => LET post == LoopBody(TheMap, t).states[t.client] IN
            post.available + post.held = TheAccount.available + TheAccount.held

\* A withdrawal has been accepted and a deposit of a positive amount has just been
\* put under dispute.
C26_Witness ==
  /\ \E x \in DOMAIN Ledger(TheAccount) : Ledger(TheAccount)[x][1] = "Withdrawal"
  /\ \E x \in DOMAIN Ledger(TheAccount) :
       Ledger(TheAccount)[x][1] = "Dispute" /\ Ledger(TheAccount)[x][2] > 0
  /\ last.transaction_type = "Dispute"
  /\ last.res = "Ok"
  /\ TheAccount.available + TheAccount.held > 0

\* C27: when every accepted Deposit and Withdrawal amount is >= 0, available >= 0 and
\* held >= 0 in every reachable state of the account, after deposits to a locked account
\* and after a chargeback as well.
C27_BalancesNonNegative ==
  AmountsNonNegative(TheAccount)
    => /\ TheAccount.available >= 0
       /\ TheAccount.held >= 0
       /\ \A t \in AccountInput :
            (t.amount = <<>> \/ t.amount[1] >= 0)
              => LET post == LoopBody(TheMap, t).states[t.client] IN
                 post.available >= 0 /\ post.held >= 0

\* With amounts >= 0 only: a deposit has just been accepted by an account that a
\* chargeback locked.
C27_Witness ==
  /\ AmountsNonNegative(TheAccount)
  /\ TheAccount.locked
  /\ last.transaction_type = "Deposit"
  /\ last.res = "Ok"
  /\ TheAccount.available > 0
  /\ TheAccount.held = 0

\* C29: no worker panics on any input: a stored lifecycle tag is always Deposit,
\* Withdrawal, Dispute or Chargeback and never Resolve, so the unreachable!() arm is
\* never taken, and the assert of each operation on the transaction kind holds because
\* the worker dispatches on that kind.
C29_NoPanic ==
  /\ \A x \in DOMAIN Ledger(TheAccount) :
       Ledger(TheAccount)[x][1] \in {"Deposit", "Withdrawal", "Dispute", "Chargeback"}
  /\ \A i \in Lanes : wpc[i] # "panicked"
  /\ last.res # "Panic"
  /\ \A t \in AccountInput : LoopBody(TheMap, t).res # "Panic"

\* A Resolve has just been applied, the worker runs on, and the resolved entry is
\* tagged Deposit.
C29_Witness ==
  /\ last.transaction_type = "Resolve"
  /\ last.res = "Ok"
  /\ wpc[last.lane] = "running"
  /\ \E x \in DOMAIN Ledger(TheAccount) : Ledger(TheAccount)[x][1] = "Deposit"
  /\ \A x \in DOMAIN Ledger(TheAccount) : Ledger(TheAccount)[x][1] # "Resolve"

\* C30: the locked flag blocks Withdrawals only: a Dispute, Resolve or Chargeback (and a
\* Deposit) has the same outcome and the same effect on available, held and the ledger
\* whether the account is locked or not.
C30_LockBlocksWithdrawalsOnly ==
  \A t \in AccountInput :
    t.transaction_type # "Withdrawal"
      => LET flipped == [TheAccount EXCEPT !.locked = ~@]
             r1 == Dispatch(TheAccount, t)
             r2 == Dispatch(flipped, t)
         IN /\ r1.res = r2.res
            /\ r1.state.available = r2.state.available
            /\ r1.state.held = r2.state.held
            /\ Ledger(r1.state) = Ledger(r2.state)
            /\ r1.res # "AccountLocked"

\* A second disputed deposit has just been charged back on an account that the first
\* chargeback had locked.
C30_Witness ==
  /\ TheAccount.locked
  /\ last.transaction_type = "Chargeback"
  /\ last.res = "Ok"
  /\ Cardinality({x \in DOMAIN Ledger(TheAccount) :
                    Ledger(TheAccount)[x][1] = "Chargeback"}) = 2

\* C22: a lane's queue never holds more than CHANNEL_BUFFER_SIZE transactions not yet
\* received; process_transaction is suspended exactly when the queue of the target lane
\* is full, goes on only once the lane's worker has received an item, and submissions
\* to one lane are never reordered.
C22_Backpressure ==
  /\ [](/\ \A i \in Lanes : Len(chan[i]) <= CHANNEL_BUFFER_SIZE
        /\ (ppc = "sending" /\ wpc[WorkerIndex(pending)] = "running")
             => ((ENABLED ProcessTransactionSend)
                   <=> Len(chan[WorkerIndex(pending)]) < CHANNEL_BUFFER_SIZE)
        /\ \A i \in Lanes : received[i] \o chan[i] \o InFlight(i) = OfLane(submitted, i))
  /\ [][(ppc = "sending" /\ Len(chan[WorkerIndex(pending)]) = CHANNEL_BUFFER_SIZE
           /\ wpc[WorkerIndex(pending)] = "running")
          => \/ ppc' = "sending" /\ pending' = pending
                  /\ Len(chan'[WorkerIndex(pending)]) <= CHANNEL_BUFFER_SIZE
                  /\ (chan'[WorkerIndex(pending)] # chan[WorkerIndex(pending)]
                        => /\ chan'[WorkerIndex(pending)] = Tail(chan[WorkerIndex(pending)])
                           /\ received'[WorkerIndex(pending)] =
                                Append(received[WorkerIndex(pending)],
                                       Head(chan[WorkerIndex(pending)])))]_vars

\* A send had to wait for a full queue; the lane's worker has received items since, the
\* producer has gone on, and the queue is full again.
C22_Witness ==
  /\ stalled
  /\ ppc = "idle"
  /\ \E i \in Lanes :
       /\ Len(chan[i]) = CHANNEL_BUFFER_SIZE
       /\ received[i] # <<>>
       /\ Len(OfLane(submitted, i)) > CHANNEL_BUFFER_SIZE

\* The sequential reference: the transactions of seq applied one after another to st.
RECURSIVE ApplyAll(_, _)
ApplyAll(st, seq) ==
  IF seq = <<>> THEN st
  ELSE ApplyAll(Dispatch(st, Head(seq)).state, Tail(seq))

\* The sequential reference without the rejected transactions: the transactions of seq
\* applied one after another to st, a rejected one being passed over.
RECURSIVE ApplyAccepted(_, _)
ApplyAccepted(st, seq) ==
  IF seq = <<>> THEN st
  ELSE LET r == Dispatch(st, Head(seq)) IN
       ApplyAccepted(IF r.res = "Ok" THEN r.state ELSE st, Tail(seq))

\* C23: a rejected transaction is not fatal: after a business-rule error the worker
\* keeps running and drops only that transaction; the later transactions of the account
\* and of the other accounts of the lane are applied as if the rejected one had never
\* been submitted: a worker ends with every account in the state that the account's
\* accepted transactions alone produce.
C23_RejectionNotFatal ==
  /\ \A i \in Lanes : wpc[i] # "panicked"
  /\ last.res \notin {"Ok", "None"}
       => /\ wpc[last.lane] \in {"running", "done"}
          /\ state_for_client[last.lane][before.tx.client] = before.pre
  /\ \A i \in Lanes :
       wpc[i] = "done"
         => \A c \in DOMAIN state_for_client[i] :
              state_for_client[i][c] =
                ApplyAccepted(DefaultClientState(c), OfClient(received[i], c))

\* A lane's worker rejected the Withdrawal of one account, then applied a Deposit of that
\* account and a Deposit of another account of the lane, and has come to its end.
C23_Witness ==
  \E i \in Lanes :
    /\ wpc[i] = "done"
    /\ Len(received[i]) = 3
    /\ received[i][1].transaction_type = "Withdrawal"
    /\ received[i][2].transaction_type = "Deposit"
    /\ received[i][3].transaction_type = "Deposit"
    /\ received[i][2].client = received[i][1].client
    /\ received[i][3].client # received[i][1].client
    /\ \A c \in DOMAIN state_for_client[i] :
         /\ state_for_client[i][c].available = MaxAmount
         /\ Ledger(state_for_client[i][c]) = (1 :> <<"Deposit", MaxAmount>>)
    /\ Cardinality(DOMAIN state_for_client[i]) = 2

\* C24: for every input, lane count and schedule, the state (available, held, locked,
\* ledger) that collect_account_states returns for an account is the state a fresh
\* account reaches when the account's transactions are applied one after another in
\* submission order; so it depends neither on the lane count nor on the schedule.
C24_RefinesSequential ==
  ppc = "done"
    => /\ \A k \in 1..Len(client_states) :
            client_states[k] =
              ApplyAll(DefaultClientState(client_states[k].client),
                       OfClient(submitted, client_states[k].client))
       /\ \A c \in ClientId :
            OfClient(submitted, c) # <<>>
              => \E k \in 1..Len(client_states) : client_states[k].client = c

\* The run has finished on two lanes: one account had a deposit and then a withdrawal,
\* another a transaction of its own submitted in between, and the collection holds both.
C24_Witness ==
  /\ ppc = "done"
  /\ numWorkers = 2
  /\ Len(submitted) = 3
  /\ submitted[1].transaction_type = "Deposit"
  /\ submitted[3].transaction_type = "Withdrawal"
  /\ submitted[1].client = submitted[3].client
  /\ submitted[2].client # submitted[1].client
  /\ Len(client_states) = 2
  /\ \E k \in 1..2 :
       /\ client_states[k].client = submitted[1].client
       /\ client_states[k].available = MaxAmount - 1
       /\ DOMAIN Ledger(client_states[k]) = {1, 2}

\* C28: a transaction of client c changes at most the state of account c and leaves the
\* balances, locked flag and ledger of every other account as they were; a Dispute,
\* Resolve or Chargeback of client c for an id deposited under another client fails as
\* not found and does not touch the account that holds the deposit.
C28_AccountsIsolated ==
  /\ [](\A t \in LaneInput :
          LET i == WorkerIndex(t)
              r == LoopBody(state_for_client[i], t)
              own == GetOrCreate(state_for_client[i], t.client)[t.client]
          IN /\ DOMAIN r.states = DOMAIN state_for_client[i] \cup {t.client}
             /\ \A c \in DOMAIN state_for_client[i] \ {t.client} :
                  r.states[c] = state_for_client[i][c]
             /\ (/\ t.transaction_type \in {"Dispute", "Resolve", "Chargeback"}
                 /\ t.tx \notin DOMAIN Ledger(own))
                  => /\ r.res = "TxDoesNotExist"
                     /\ r.states = GetOrCreate(state_for_client[i], t.client))
  /\ [][\A i \in Lanes :
          /\ DOMAIN state_for_client[i] \subseteq DOMAIN state_for_client'[i]
          /\ \A c \in DOMAIN state_for_client'[i] :
               (c \notin DOMAIN state_for_client[i]
                  \/ state_for_client'[i][c] # state_for_client[i][c])
                 => (last'.lane = i /\ before'.tx.client = c)]_vars

\* A Resolve of one client for an id that only another client of the same lane has
\* deposited, and has under dispute, has just failed as not found; the disputed deposit
\* is untouched.
C28_Witness ==
  /\ last.res = "TxDoesNotExist"
  /\ last.transaction_type = "Resolve"
  /\ \E d \in DOMAIN state_for_client[last.lane] :
       /\ d # before.tx.client
       /\ before.tx.tx \in DOMAIN Ledger(state_for_client[last.lane][d])
       /\ Ledger(state_for_client[last.lane][d])[before.tx.tx] = <<"Dispute", MaxAmount>>
       /\ state_for_client[last.lane][d].available = 0
       /\ state_for_client[last.lane][d].held = MaxAmount
  /\ before.tx.tx \notin DOMAIN Ledger(state_for_client[last.lane][before.tx.client])

====
